---- MODULE Spec2Model ----
(***************************************************************************)
(* Bulk-ingestion job engine of newslynx-core (newslynx/tasks/ingest_bulk). *)
(* BulkLoader.run stages a batch in redis and enqueues a descriptor;        *)
(* BulkLoader.load_all, run by a queue worker, fetches and deletes the      *)
(* staged payload, runs load_one over the items (gevent pool or a plain     *)
(* loop), and adds/executes the outputs on a session that it commits once.  *)
(***************************************************************************)
EXTENDS Integers, Sequences, FiniteSets, TLC

\* ---------------------------------------------------------------- bounds
\* Longest batch submitted to run().
MaxItems == 2
\* Number of run() submissions.
MaxJobs == 1
\* Number of times the queue hands a descriptor to a worker, over all jobs
\* (the queue delivers at least once).
MaxDeliveries == 2
\* Longest batch submitted when two workers serve the queue.
MaxRaceItems == 1
\* max_workers of a loader whose pool is smaller than its batches.
SmallPool == 1
\* Number of run() submissions when several jobs are pending together.
MaxSubmissions == 2
\* timeout, in clock ticks, of a loader whose budget is a few ticks long.
ShortTimeout == 2
\* Number of ticks of the clock that are followed.
MaxTicks == 3
\* Largest attempts given to retry.
MaxAttempts == 3
\* Largest wait given to retry, in seconds.
MaxWait == 2
\* Largest backoff given to retry.
MaxBackoff == 2

\* ------------------------------------------------------ program constants
max_workers == 5
kwargs_ttl == 1000
result_ttl == 60
\* BulkLoader.timeout, the budget of a loader that does not override it.
base_timeout == 1000

\* The loader classes of the module: what each one overrides of BulkLoader.
Variants ==
    [ContentTimeseriesBulkLoader |->
         [returns |-> "query", timeout |-> 240, concurrent |-> TRUE,
          load_one |-> "ingest_metric.content_timeseries"],
     ContentSummaryBulkLoader |->
         [returns |-> "query", timeout |-> 480, concurrent |-> TRUE,
          load_one |-> "ingest_metric.content_summary"],
     OrgTimeseriesBulkLoader |->
         [returns |-> "query", timeout |-> 240, concurrent |-> TRUE,
          load_one |-> "ingest_metric.org_timeseries"],
     OrgSummaryBulkLoader |->
         [returns |-> "query", timeout |-> 120, concurrent |-> TRUE,
          load_one |-> "ingest_metric.org_summary"],
     EventBulkLoader |->
         [returns |-> "model", timeout |-> 480, concurrent |-> TRUE,
          load_one |-> "ingest_event.ingest"],
     ContentItemBulkLoader |->
         [returns |-> "model", timeout |-> 240, concurrent |-> TRUE,
          load_one |-> "ingest_content_item.ingest"]]

\* The queue's worker processes, each executing one job at a time.
Workers == {"w1", "w2"}

\* The job ids gen_uuid() hands out.
JobIds == 1..MaxSubmissions

VARIABLES
    returns,      \* BulkLoader.returns of the loader in use: "model" or "query"
    concurrent,   \* BulkLoader.concurrent of the loader in use
    maxWorkers,   \* BulkLoader.max_workers of the loader in use
    loader,       \* the class of the loader in use
    timeout,      \* BulkLoader.timeout of the loader in use
    store,        \* redis: kwargs_key -> staged blob (DOMAIN = the keys that exist)
    q,            \* the 'bulk' queue: the descriptors enqueued and not yet acknowledged
    uuids,        \* number of job ids gen_uuid has handed out
    run_pc,       \* position of the call of run(): "idle" or "enqueue"
    run_job,      \* run()'s local job_id
    run_result,   \* job id -> how its run() ended: "returned" or "raised"
    everStaged,   \* the keys rds.set has written successfully (history)
    deliveries,   \* number of deliveries made by the queue
    pc,           \* worker -> position in load_all
    key,          \* worker -> kwargs_key argument of load_all
    fetched,      \* worker -> result of redis.get: "no" (not yet), "absent", "payload"
    data,         \* worker -> kwargs.get('data')
    spawned,      \* worker -> number of items handed to fx so far (input order)
    running,      \* worker -> items whose load_one is executing
    outputs,      \* worker -> the list outputs
    errors,       \* worker -> the list errors
    idx,          \* worker -> position of the add/execute loop in outputs
    pending,      \* worker -> outputs added to / executed on the session, uncommitted
    calls,        \* worker -> the calls made on the session and on redis, in order
    alarm,        \* worker -> rq's job timeout: "off", "armed", or where it fired
    outcome,      \* worker -> how load_all ended
    persisted,    \* worker -> the outputs this execution's commit made durable
    fxResults,    \* worker -> item -> the (err, res) pair fx returned for it
    dbCommits,    \* job id -> number of committed transactions holding its outputs
    now,          \* time.time(), in ticks
    armedAt,      \* worker -> time at which rq armed the job's timeout
    start,        \* worker -> load_all's local start
    elapsed,      \* worker -> the end - start that the timeout error reports
    attempts,     \* retry: the decorator's attempts
    wait,         \* retry: the decorator's wait
    backoff,      \* retry: the decorator's backoff
    raise_uncaught_errors,  \* retry: the decorator's raise_uncaught_errors
    tries,        \* wrapped_func's local tries
    rv,           \* wrapped_func's local r
    err,          \* wrapped_func's local err
    wait_time,    \* wrapped_func's local wait_time
    retry_pc,     \* position in wrapped_func: "idle", "loop", "try", "status", "done"
    attemptLog,   \* what each invocation of f did, in order (history)
    sleeps,       \* the time.sleep calls: [after |-> tries, secs |-> wait_time]
    retry_result  \* how wrapped_func ended

jobvars == <<returns, concurrent, maxWorkers, loader, timeout, store, q, uuids, run_pc, run_job, run_result,
             everStaged, deliveries, dbCommits>>
wvars == <<pc, key, fetched, data, spawned, running, outputs, errors, idx,
           pending, calls, alarm, outcome, persisted, fxResults>>
clockvars == <<now, armedAt, start, elapsed>>
retryvars == <<attempts, wait, backoff, raise_uncaught_errors, tries, rv, err,
               wait_time, retry_pc, attemptLog, sleeps, retry_result>>
vars == <<jobvars, wvars, clockvars, retryvars>>

\* ------------------------------------------------------------- helpers
Min(a, b) == IF a <= b THEN a ELSE b

NoKey == <<>>

\* kwargs_key without the placeholder: every job is staged under one key.
kwargs_key_fixed(job_id) == <<"rq:kwargs", 1>>

\* kwargs_key = 'rq:kwargs:{}'.format(job_id)
kwargs_key(job_id) == <<"rq:kwargs", job_id>>

JobOf(k) == k[2]

\* gen_session(): a session handle of its own for the execution that calls it,
\* named after the worker that runs the execution.
gen_session(w) == w

\* The session made once for the loader, as redis and q are, and used by every
\* execution.
session_of_loader(w) == gen_session("w1")

\* load_all: session = gen_session(), the session of the execution on w.
session(w) == gen_session(w)

\* gen_uuid(): a token different from the issued ones handed out before.
gen_uuid(issued) == issued + 1

\* obj_to_jsongz / jsongz_to_obj: the blob is a tagged wrapper, not the object.
obj_to_jsongz(obj) == <<"jsongz", obj>>

jsongz_to_obj(blob) == blob[2]

\* The items of a batch of n records: item i is the i-th record.
Items(n) == [i \in 1..n |-> i]

\* Exception classes that reach _load_one, and their base classes.
Bases(exc) ==
    CASE exc = "ObjectDeletedError" -> {"ObjectDeletedError", "Exception"}
      [] exc = "JobTimeoutException" -> {"JobTimeoutException", "Exception"}
      [] OTHER -> {exc}

IsInstance(exc, cls) == cls \in Bases(exc)

\* What one call of load_one(item) can do: return an entity/statement, return
\* None, raise a generic error, or raise ObjectDeletedError.
Returned(v) == [raised |-> FALSE, val |-> v]

Raised(e) == [raised |-> TRUE, val |-> e]

LoadOneResults ==
    {Returned("obj"), Returned("None"), Raised("Exception"),
     Raised("ObjectDeletedError")}

\* _load_one: the except clauses are tried in the order they are written.
_load_one(r) ==
    IF ~r.raised THEN <<FALSE, r.val>>
    ELSE IF IsInstance(r.val, "Exception") THEN <<TRUE, r.val>>
    ELSE IF IsInstance(r.val, "ObjectDeletedError") THEN <<FALSE, "None">>
    ELSE <<TRUE, r.val>>

NoMsg == [item |-> 0, exc |-> "none"]

NoOutcome == [how |-> "none", val |-> "none", src |-> "none", msg |-> NoMsg]

\* return True
Committed == [how |-> "returned", val |-> "True", src |-> "ok", msg |-> NoMsg]

\* RequestError('There was an error while bulk uploading: {}'.format(m))
RequestError(src, m) ==
    [how |-> "returned", val |-> "RequestError", src |-> src, msg |-> m]

\* InternalServerError('Bulk loading timed out after {} seconds')
TimeoutExceeded ==
    [how |-> "returned", val |-> "InternalServerError", src |-> "timeout",
     msg |-> NoMsg]

\* ValueError('Invalid size for pool (positive integer or None required)'),
\* raised by Pool(0) where gevent takes no pool of size zero.
InvalidPoolSize ==
    [how |-> "raised", val |-> "ValueError", src |-> "pool", msg |-> NoMsg]

\* raise InternalServerError('An unexpected error occurred ...')
PayloadMissing ==
    [how |-> "raised", val |-> "InternalServerError", src |-> "missing",
     msg |-> NoMsg]

\* NextIdx without 'if o is not None': every output is taken, None included.
NextIdx_any(outs, k) == IF k > Len(outs) THEN Len(outs) + 1 ELSE k

\* First position at or after k of an output that is not None (Len+1 if none):
\* the add/execute loops skip None outputs.
RECURSIVE NextIdx(_, _)
NextIdx(outs, k) ==
    IF k > Len(outs) THEN Len(outs) + 1
    ELSE IF outs[k].val # "None" THEN k
    ELSE NextIdx(outs, k + 1)

AfterLoop(outs, k) == IF k > Len(outs) THEN "commit" ELSE "add"

Count(s, c) == Cardinality({i \in DOMAIN s : s[i] = c})

\* ------------------------------------------------------------------ Init
\* retry(...)'s null_value, left at its default (None): a value no invocation
\* of f produced.
null_value == [kind |-> "None", from |-> 0]

\* wrapped_func has not ended.
NoRetryResult == [how |-> "none", val |-> null_value]

\* No function wrapped by retry is called.
RetryNotCalled ==
    /\ attempts = 0
    /\ wait = 0
    /\ backoff = 0
    /\ raise_uncaught_errors = FALSE
    /\ tries = 0
    /\ rv = null_value
    /\ err = TRUE
    /\ wait_time = 0
    /\ retry_pc = "idle"
    /\ attemptLog = <<>>
    /\ sleeps = <<>>
    /\ retry_result = NoRetryResult

\* The state before any submission, whatever the loader.
InitEngine ==
    /\ store = <<>>
    /\ q = {}
    /\ uuids = 0
    /\ run_pc = "idle"
    /\ run_job = 0
    /\ run_result = <<>>
    /\ everStaged = {}
    /\ deliveries = 0
    /\ dbCommits = [j \in JobIds |-> 0]
    /\ pc = [w \in Workers |-> "idle"]
    /\ key = [w \in Workers |-> NoKey]
    /\ fetched = [w \in Workers |-> "no"]
    /\ data = [w \in Workers |-> <<>>]
    /\ spawned = [w \in Workers |-> 0]
    /\ running = [w \in Workers |-> {}]
    /\ outputs = [w \in Workers |-> <<>>]
    /\ errors = [w \in Workers |-> <<>>]
    /\ idx = [w \in Workers |-> 0]
    /\ pending = [w \in Workers |-> <<>>]
    /\ calls = [w \in Workers |-> <<>>]
    /\ alarm = [w \in Workers |-> "off"]
    /\ outcome = [w \in Workers |-> NoOutcome]
    /\ persisted = [w \in Workers |-> {}]
    /\ fxResults = [w \in Workers |-> <<>>]
    /\ now = 0
    /\ armedAt = [w \in Workers |-> 0]
    /\ start = [w \in Workers |-> 0]
    /\ elapsed = [w \in Workers |-> 0]

\* The engine before any submission, and no wrapped function called.
InitState == InitEngine /\ RetryNotCalled

\* A loader built on BulkLoader with either returns mode, either loop and
\* max_workers mw, that keeps BulkLoader's timeout.
InitLoader(mw) ==
    /\ loader = "BulkLoader"
    /\ returns \in {"model", "query"}
    /\ concurrent \in BOOLEAN
    /\ maxWorkers = mw
    /\ timeout = base_timeout
    /\ InitState

\* A loader whose timeout is a few ticks of the clock.
InitShortTimeout ==
    /\ loader = "BulkLoader"
    /\ returns \in {"model", "query"}
    /\ concurrent \in BOOLEAN
    /\ maxWorkers = max_workers
    /\ timeout = ShortTimeout
    /\ InitState

\* One of the loader classes of the module.
InitVariants ==
    \E name \in DOMAIN Variants :
        /\ loader = name
        /\ returns = Variants[name].returns
        /\ concurrent = Variants[name].concurrent
        /\ maxWorkers = max_workers
        /\ timeout = Variants[name].timeout
        /\ InitState

\* The loaders of the module keep BulkLoader's max_workers.
Init == InitLoader(max_workers)

\* A loader that overrides max_workers with a smaller number.
InitSmallPool == InitLoader(SmallPool)

\* ------------------------------------------------------------------- run
\* RunSet with the failure of rds.set swallowed: run() goes on to enqueue.
RunSet_swallowed(d, ok) ==
    /\ run_pc = "idle"
    /\ uuids < MaxSubmissions
    /\ uuids' = uuids + 1
    /\ run_job' = gen_uuid(uuids)
    /\ run_pc' = "enqueue"
    /\ run_result' = run_result
    /\ IF ok
       THEN /\ store' = (kwargs_key(gen_uuid(uuids)) :>
                            [blob |-> obj_to_jsongz([data |-> d, kw |-> <<>>]),
                             ex |-> kwargs_ttl])
                        @@ store
            /\ everStaged' = everStaged \cup {kwargs_key(gen_uuid(uuids))}
       ELSE UNCHANGED <<store, everStaged>>
    /\ UNCHANGED <<returns, concurrent, maxWorkers, loader, timeout, q, deliveries, dbCommits, wvars>>

\* RunSet without ex=: the entry is written with no ttl.
RunSet_no_ttl(d, ok) ==
    /\ run_pc = "idle"
    /\ uuids < MaxSubmissions
    /\ uuids' = uuids + 1
    /\ run_job' = gen_uuid(uuids)
    /\ IF ok
       THEN /\ store' = (kwargs_key(gen_uuid(uuids)) :>
                            [blob |-> obj_to_jsongz([data |-> d, kw |-> <<>>]),
                             ex |-> 0])
                        @@ store
            /\ everStaged' = everStaged \cup {kwargs_key(gen_uuid(uuids))}
            /\ run_pc' = "enqueue"
            /\ run_result' = run_result
       ELSE /\ run_result' = (gen_uuid(uuids) :> "raised") @@ run_result
            /\ UNCHANGED <<store, everStaged, run_pc>>
    /\ UNCHANGED <<returns, concurrent, maxWorkers, loader, timeout, q, deliveries, dbCommits, wvars>>

\* run(), first half: job_id = gen_uuid(); rds.set(kwargs_key, blob, ex=kwargs_ttl).
\* ok = FALSE: rds.set raises, and run() ends there.
RunSet(d, ok) ==
    /\ run_pc = "idle"
    /\ uuids < MaxSubmissions
    /\ uuids' = uuids + 1
    /\ run_job' = gen_uuid(uuids)
    /\ IF ok
       THEN /\ store' = (kwargs_key(gen_uuid(uuids)) :>
                            [blob |-> obj_to_jsongz([data |-> d, kw |-> <<>>]),
                             ex |-> kwargs_ttl])
                        @@ store
            /\ everStaged' = everStaged \cup {kwargs_key(gen_uuid(uuids))}
            /\ run_pc' = "enqueue"
            /\ run_result' = run_result
       ELSE /\ run_result' = (gen_uuid(uuids) :> "raised") @@ run_result
            /\ UNCHANGED <<store, everStaged, run_pc>>
    /\ UNCHANGED <<returns, concurrent, maxWorkers, loader, timeout, q, deliveries, dbCommits, wvars>>

\* RunEnqueue on a synchronous queue: enqueue calls load_all in the caller, on
\* worker w1's state, before run() returns.
RunEnqueue_inline ==
    /\ run_pc = "enqueue"
    /\ pc["w1"] = "idle"
    /\ pc' = [pc EXCEPT !["w1"] = "get"]
    /\ key' = [key EXCEPT !["w1"] = kwargs_key(run_job)]
    /\ calls' = [calls EXCEPT !["w1"] = <<"gen_session">>]
    /\ run_result' = (run_job :> "returned") @@ run_result
    /\ run_pc' = "idle"
    /\ UNCHANGED <<returns, concurrent, maxWorkers, loader, timeout, store, q, uuids, run_job,
                   everStaged, deliveries, dbCommits>>
    /\ UNCHANGED <<fetched, data, spawned, running, outputs, errors, idx,
                   pending, alarm, outcome, persisted, fxResults>>

\* RunEnqueue passing BulkLoader's timeout instead of self.timeout.
RunEnqueue_base_timeout ==
    /\ run_pc = "enqueue"
    /\ q' = q \cup {[f |-> "load_all", kwargs_key |-> kwargs_key(run_job),
                     job_id |-> run_job, timeout |-> base_timeout,
                     result_ttl |-> result_ttl]}
    /\ run_result' = (run_job :> "returned") @@ run_result
    /\ run_pc' = "idle"
    /\ UNCHANGED <<returns, concurrent, maxWorkers, loader, timeout, store, uuids, run_job, everStaged,
                   deliveries, dbCommits, wvars>>

\* run(), second half: q.enqueue(load_all, kwargs_key, job_id=job_id,
\* timeout=self.timeout, result_ttl=self.result_ttl); return job_id.
RunEnqueue ==
    /\ run_pc = "enqueue"
    /\ q' = q \cup {[f |-> "load_all", kwargs_key |-> kwargs_key(run_job),
                     job_id |-> run_job, timeout |-> timeout,
                     result_ttl |-> result_ttl]}
    /\ run_result' = (run_job :> "returned") @@ run_result
    /\ run_pc' = "idle"
    /\ UNCHANGED <<returns, concurrent, maxWorkers, loader, timeout, store, uuids, run_job, everStaged,
                   deliveries, dbCommits, wvars>>

\* redis drops a staged entry ex seconds after rds.set wrote it (ex = 0: the
\* entry was written without a ttl and stays).
Expire(k) ==
    /\ k \in DOMAIN store
    /\ store[k].ex > 0
    /\ store' = [x \in DOMAIN store \ {k} |-> store[x]]
    /\ UNCHANGED <<returns, concurrent, maxWorkers, loader, timeout, q, uuids, run_pc, run_job, run_result,
                   everStaged, deliveries, dbCommits, wvars>>

\* ------------------------------------------------------------- load_all
\* The queue hands descriptor d to an idle worker, which arms the job timeout
\* and calls load_all(kwargs_key): start = time.time(); session = gen_session().
\* ack = FALSE: the descriptor stays queued and is delivered again.
Deliver(w, d, ack) ==
    /\ pc[w] = "idle"
    /\ d \in q
    /\ deliveries < MaxDeliveries
    /\ deliveries' = deliveries + 1
    /\ q' = IF ack THEN q \ {d} ELSE q
    /\ pc' = [pc EXCEPT ![w] = "get"]
    /\ key' = [key EXCEPT ![w] = d.kwargs_key]
    /\ alarm' = [alarm EXCEPT ![w] = "armed"]
    /\ calls' = [calls EXCEPT ![w] = <<"gen_session">>]
    /\ UNCHANGED <<returns, concurrent, maxWorkers, loader, timeout, store, uuids, run_pc, run_job,
                   run_result, everStaged, dbCommits>>
    /\ UNCHANGED <<fetched, data, spawned, running, outputs, errors, idx,
                   pending, outcome, persisted, fxResults>>

\* Get without the "if not kwargs" test: an absent payload is taken for an
\* empty batch and load_all goes on.
Get_unchecked(w) ==
    /\ pc[w] = "get"
    /\ calls' = [calls EXCEPT ![w] = Append(@, "redis.get")]
    /\ fetched' = [fetched EXCEPT ![w] =
                      IF key[w] \in DOMAIN store THEN "payload" ELSE "absent"]
    /\ data' = [data EXCEPT ![w] =
                   IF key[w] \in DOMAIN store
                   THEN jsongz_to_obj(store[key[w]].blob).data ELSE <<>>]
    /\ pc' = [pc EXCEPT ![w] = "delete"]
    /\ UNCHANGED <<jobvars, key, spawned, running, outputs, errors, idx,
                   pending, alarm, outcome, persisted, fxResults>>

\* kwargs = self.redis.get(kwargs_key); if not kwargs: raise InternalServerError;
\* kwargs = jsongz_to_obj(kwargs); data = kwargs.get('data').
Get(w) ==
    /\ pc[w] = "get"
    /\ calls' = [calls EXCEPT ![w] = Append(@, "redis.get")]
    /\ IF key[w] \in DOMAIN store
       THEN /\ fetched' = [fetched EXCEPT ![w] = "payload"]
            /\ data' = [data EXCEPT ![w] = jsongz_to_obj(store[key[w]].blob).data]
            /\ pc' = [pc EXCEPT ![w] = "delete"]
            /\ UNCHANGED outcome
       ELSE /\ fetched' = [fetched EXCEPT ![w] = "absent"]
            /\ outcome' = [outcome EXCEPT ![w] = PayloadMissing]
            /\ pc' = [pc EXCEPT ![w] = "done"]
            /\ UNCHANGED data
    /\ UNCHANGED <<jobvars, key, spawned, running, outputs, errors, idx,
                   pending, alarm, persisted, fxResults>>

\* Delete without the redis.delete: load_all goes straight on to the items.
Delete_skipped(w) ==
    /\ pc[w] = "delete"
    /\ pc' = [pc EXCEPT ![w] = "pool"]
    /\ UNCHANGED <<jobvars, key, fetched, data, spawned, running, outputs,
                   errors, idx, pending, calls, alarm, outcome, persisted,
                   fxResults>>

\* self.redis.delete(kwargs_key); outputs = []; errors = []; fx = partial(...).
Delete(w) ==
    /\ pc[w] = "delete"
    /\ store' = [x \in DOMAIN store \ {key[w]} |-> store[x]]
    /\ calls' = [calls EXCEPT ![w] = Append(@, "redis.delete")]
    /\ pc' = [pc EXCEPT ![w] = "pool"]
    /\ UNCHANGED <<returns, concurrent, maxWorkers, loader, timeout, q, uuids, run_pc, run_job, run_result,
                   everStaged, deliveries, dbCommits>>
    /\ UNCHANGED <<key, fetched, data, spawned, running, outputs, errors, idx,
                   pending, alarm, outcome, persisted, fxResults>>

\* PoolSize without the cap: one greenlet per item.
PoolSize_len(w) == Len(data[w])

\* Pool(min([len(data), self.max_workers]))
PoolSize(w) == Min(Len(data[w]), maxWorkers)

\* Pool(min([len(data), self.max_workers])) for an empty batch is Pool(0). The
\* gevent releases that require a positive size raise ValueError, which no
\* handler of load_all catches; the releases that take size zero build the pool,
\* and imap_unordered over no items yields nothing (Drained). Which of the two
\* happens is decided by the gevent installed, so both are possible here.
PoolInvalidSize(w) ==
    /\ pc[w] = "pool"
    /\ concurrent
    /\ PoolSize(w) < 1
    /\ outcome' = [outcome EXCEPT ![w] = InvalidPoolSize]
    /\ pc' = [pc EXCEPT ![w] = "done"]
    /\ UNCHANGED <<jobvars, key, fetched, data, spawned, running, outputs,
                   errors, idx, pending, calls, alarm, persisted, fxResults>>

\* pool.imap_unordered(fx, data) starts fx on the next item, in input order,
\* while the pool has a free slot.
PoolSpawn(w) ==
    /\ pc[w] = "pool"
    /\ concurrent
    /\ spawned[w] < Len(data[w])
    /\ Cardinality(running[w]) < PoolSize(w)
    /\ spawned' = [spawned EXCEPT ![w] = @ + 1]
    /\ running' = [running EXCEPT ![w] = @ \cup {data[w][spawned[w] + 1]}]
    /\ UNCHANGED <<jobvars, pc, key, fetched, data, outputs, errors, idx,
                   pending, calls, alarm, outcome, persisted, fxResults>>

\* Accumulate keeping only the latest entry of each list.
Accumulate_overwrite(w, i, pair) ==
    /\ fxResults' = [fxResults EXCEPT ![w] = (i :> pair) @@ @]
    /\ IF pair[1]
       THEN /\ errors' = [errors EXCEPT ![w] = <<[item |-> i, exc |-> pair[2]]>>]
            /\ UNCHANGED outputs
       ELSE /\ outputs' = [outputs EXCEPT ![w] = <<[item |-> i, val |-> pair[2]]>>]
            /\ UNCHANGED errors

\* err, res = fx(item); if err: errors.append(res) else: outputs.append(res)
Accumulate(w, i, pair) ==
    /\ fxResults' = [fxResults EXCEPT ![w] = (i :> pair) @@ @]
    /\ IF pair[1]
       THEN /\ errors' = [errors EXCEPT ![w] = Append(@, [item |-> i, exc |-> pair[2]])]
            /\ UNCHANGED outputs
       ELSE /\ outputs' = [outputs EXCEPT ![w] = Append(@, [item |-> i, val |-> pair[2]])]
            /\ UNCHANGED errors

\* An item's fx completes with result r of load_one and the for loop over
\* imap_unordered receives (err, res): completion order.
PoolYield(w, i, r) ==
    /\ pc[w] = "pool"
    /\ concurrent
    /\ i \in running[w]
    /\ running' = [running EXCEPT ![w] = @ \ {i}]
    /\ Accumulate(w, i, _load_one(r))
    /\ UNCHANGED <<jobvars, pc, key, fetched, data, spawned, idx, pending,
                   calls, alarm, outcome, persisted>>

\* SeqCall that does not wait for the item before: the next item is started
\* while earlier ones are still executing.
SeqCall_eager(w) ==
    /\ pc[w] = "pool"
    /\ ~concurrent
    /\ spawned[w] < Len(data[w])
    /\ spawned' = [spawned EXCEPT ![w] = @ + 1]
    /\ running' = [running EXCEPT ![w] = @ \cup {data[w][spawned[w] + 1]}]
    /\ UNCHANGED <<jobvars, pc, key, fetched, data, outputs, errors, idx,
                   pending, calls, alarm, outcome, persisted, fxResults>>

\* for item in data: err, res = fx(item) -- the call.
SeqCall(w) ==
    /\ pc[w] = "pool"
    /\ ~concurrent
    /\ running[w] = {}
    /\ spawned[w] < Len(data[w])
    /\ spawned' = [spawned EXCEPT ![w] = @ + 1]
    /\ running' = [running EXCEPT ![w] = {data[w][spawned[w] + 1]}]
    /\ UNCHANGED <<jobvars, pc, key, fetched, data, outputs, errors, idx,
                   pending, calls, alarm, outcome, persisted, fxResults>>

\* SeqReturn with a break on the first error: the rest of the batch is skipped.
SeqReturn_break(w, i, r) ==
    /\ pc[w] = "pool"
    /\ ~concurrent
    /\ i \in running[w]
    /\ running' = [running EXCEPT ![w] = {}]
    /\ Accumulate(w, i, _load_one(r))
    /\ spawned' = [spawned EXCEPT ![w] =
                      IF _load_one(r)[1] THEN Len(data[w]) ELSE @]
    /\ UNCHANGED <<jobvars, pc, key, fetched, data, idx, pending,
                   calls, alarm, outcome, persisted>>

\* for item in data: err, res = fx(item) -- the return and the append.
SeqReturn(w, i, r) ==
    /\ pc[w] = "pool"
    /\ ~concurrent
    /\ i \in running[w]
    /\ running' = [running EXCEPT ![w] = {}]
    /\ Accumulate(w, i, _load_one(r))
    /\ UNCHANGED <<jobvars, pc, key, fetched, data, spawned, idx, pending,
                   calls, alarm, outcome, persisted>>

\* Both loops are over: every item was handed to fx and every fx returned.
Drained(w) ==
    /\ pc[w] = "pool"
    /\ spawned[w] = Len(data[w])
    /\ running[w] = {}

\* ReturnErrors without the return: the errors are dropped and the loops run.
ReturnErrors_dropped(w) ==
    /\ Drained(w)
    /\ Len(errors[w]) > 0
    /\ idx' = [idx EXCEPT ![w] = NextIdx(outputs[w], 1)]
    /\ pc' = [pc EXCEPT ![w] = AfterLoop(outputs[w], NextIdx(outputs[w], 1))]
    /\ UNCHANGED <<jobvars, key, fetched, data, spawned, running, outputs,
                   errors, pending, calls, alarm, outcome, persisted, fxResults>>

\* ReturnErrors with a session.rollback() before the return.
ReturnErrors_rollback(w) ==
    /\ Drained(w)
    /\ Len(errors[w]) > 0
    /\ calls' = [calls EXCEPT ![w] = Append(@, "session.rollback")]
    /\ outcome' = [outcome EXCEPT ![w] = RequestError("item", errors[w][1])]
    /\ pc' = [pc EXCEPT ![w] = "done"]
    /\ UNCHANGED <<jobvars, key, fetched, data, spawned, running, outputs,
                   errors, idx, pending, alarm, persisted, fxResults>>

\* ReturnErrors reporting errors[-1]: the last failure observed.
ReturnErrors_last(w) ==
    /\ Drained(w)
    /\ Len(errors[w]) > 0
    /\ outcome' = [outcome EXCEPT ![w] =
                      RequestError("item", errors[w][Len(errors[w])])]
    /\ pc' = [pc EXCEPT ![w] = "done"]
    /\ UNCHANGED <<jobvars, key, fetched, data, spawned, running, outputs,
                   errors, idx, pending, calls, alarm, persisted, fxResults>>

\* if len(errors): return RequestError(... errors[0].message)
ReturnErrors(w) ==
    /\ Drained(w)
    /\ Len(errors[w]) > 0
    /\ outcome' = [outcome EXCEPT ![w] = RequestError("item", errors[w][1])]
    /\ pc' = [pc EXCEPT ![w] = "done"]
    /\ UNCHANGED <<jobvars, key, fetched, data, spawned, running, outputs,
                   errors, idx, pending, calls, alarm, persisted, fxResults>>

\* BeginLoop without waiting for the pool: the add/execute loop starts on the
\* outputs collected so far while other items are still running.
BeginLoop_early(w) ==
    /\ pc[w] = "pool"
    /\ Len(errors[w]) = 0
    /\ idx' = [idx EXCEPT ![w] = NextIdx(outputs[w], 1)]
    /\ pc' = [pc EXCEPT ![w] = AfterLoop(outputs[w], NextIdx(outputs[w], 1))]
    /\ UNCHANGED <<jobvars, key, fetched, data, spawned, running, outputs,
                   errors, pending, calls, alarm, outcome, persisted, fxResults>>

\* No errors: enter the add loop (returns == 'model') or the execute loop
\* (returns == 'query') at the first output that is not None.
BeginLoop(w) ==
    /\ Drained(w)
    /\ Len(errors[w]) = 0
    /\ idx' = [idx EXCEPT ![w] = NextIdx(outputs[w], 1)]
    /\ pc' = [pc EXCEPT ![w] = AfterLoop(outputs[w], NextIdx(outputs[w], 1))]
    /\ UNCHANGED <<jobvars, key, fetched, data, spawned, running, outputs,
                   errors, pending, calls, alarm, outcome, persisted, fxResults>>

\* SessionCall with "except Exception: pass": a failed call is skipped and the
\* loop goes on to the commit.
SessionCall_swallowed(w, op, ok) ==
    /\ pc[w] = "add"
    /\ calls' = [calls EXCEPT ![w] = Append(@, op)]
    /\ pending' = [pending EXCEPT ![session(w)] =
                      IF ok THEN Append(@, outputs[w][idx[w]]) ELSE @]
    /\ idx' = [idx EXCEPT ![w] = NextIdx(outputs[w], idx[w] + 1)]
    /\ pc' = [pc EXCEPT ![w] =
                 AfterLoop(outputs[w], NextIdx(outputs[w], idx[w] + 1))]
    /\ UNCHANGED <<jobvars, key, fetched, data, spawned, running, outputs,
                   errors, alarm, outcome, persisted, fxResults>>

\* One pass of a loop body on outputs[idx]: session.<op>(o) inside try.
\* ok = FALSE: the call raises and load_all returns RequestError.
SessionCall(w, op, ok) ==
    /\ pc[w] = "add"
    /\ calls' = [calls EXCEPT ![w] = Append(@, op)]
    /\ IF ok
       THEN /\ pending' = [pending EXCEPT ![session(w)] =
                               Append(@, outputs[w][idx[w]])]
            /\ idx' = [idx EXCEPT ![w] = NextIdx(outputs[w], idx[w] + 1)]
            /\ pc' = [pc EXCEPT ![w] =
                         AfterLoop(outputs[w], NextIdx(outputs[w], idx[w] + 1))]
            /\ UNCHANGED outcome
       ELSE /\ outcome' = [outcome EXCEPT ![w] =
                              RequestError("add", [item |-> outputs[w][idx[w]].item,
                                                   exc |-> "Exception"])]
            /\ pc' = [pc EXCEPT ![w] = "done"]
            /\ UNCHANGED <<pending, idx>>
    /\ UNCHANGED <<jobvars, key, fetched, data, spawned, running, outputs,
                   errors, alarm, persisted, fxResults>>

\* if self.returns == 'model': for o in outputs: ... session.add(o)
SessionAdd(w, ok) ==
    /\ returns = "model"
    /\ SessionCall(w, "session.add", ok)

\* elif self.returns == 'query': for query in outputs: ... session.execute(query)
SessionExecute(w, ok) ==
    /\ returns = "query"
    /\ SessionCall(w, "session.execute", ok)

\* session.commit(). ok: the transaction holding the pending outputs becomes
\* durable. ~ok: it raises and the except clause is entered.
Commit(w, ok) ==
    /\ pc[w] = "commit"
    /\ calls' = [calls EXCEPT ![w] = Append(@, "session.commit")]
    /\ IF ok
       THEN /\ persisted' = [persisted EXCEPT ![w] =
                                {pending[session(w)][k] :
                                     k \in DOMAIN pending[session(w)]}]
            /\ dbCommits' = [dbCommits EXCEPT ![JobOf(key[w])] = @ + 1]
            /\ pending' = [pending EXCEPT ![session(w)] = <<>>]
            /\ pc' = [pc EXCEPT ![w] = "remove"]
       ELSE /\ pc' = [pc EXCEPT ![w] = "rollback"]
            /\ UNCHANGED <<persisted, dbCommits, pending>>
    /\ UNCHANGED <<returns, concurrent, maxWorkers, loader, timeout, store, q, uuids, run_pc, run_job,
                   run_result, everStaged, deliveries>>
    /\ UNCHANGED <<key, fetched, data, spawned, running, outputs, errors, idx,
                   alarm, outcome, fxResults>>

\* Rollback without session.rollback(): the handler only removes the session.
Rollback_missing(w) ==
    /\ pc[w] = "rollback"
    /\ calls' = [calls EXCEPT ![w] = Append(@, "session.remove")]
    /\ pending' = [pending EXCEPT ![session(w)] = <<>>]
    /\ outcome' = [outcome EXCEPT ![w] =
                      RequestError("commit", [item |-> 0, exc |-> "Exception"])]
    /\ pc' = [pc EXCEPT ![w] = "done"]
    /\ UNCHANGED <<jobvars, key, fetched, data, spawned, running, outputs,
                   errors, idx, alarm, persisted, fxResults>>

\* except Exception as e: session.rollback(); session.remove(); return RequestError
Rollback(w) ==
    /\ pc[w] = "rollback"
    /\ calls' = [calls EXCEPT ![w] = @ \o <<"session.rollback", "session.remove">>]
    /\ pending' = [pending EXCEPT ![session(w)] = <<>>]
    /\ outcome' = [outcome EXCEPT ![w] =
                      RequestError("commit", [item |-> 0, exc |-> "Exception"])]
    /\ pc' = [pc EXCEPT ![w] = "done"]
    /\ UNCHANGED <<jobvars, key, fetched, data, spawned, running, outputs,
                   errors, idx, alarm, persisted, fxResults>>

\* session.remove(); return True
Remove(w) ==
    /\ pc[w] = "remove"
    /\ calls' = [calls EXCEPT ![w] = Append(@, "session.remove")]
    /\ outcome' = [outcome EXCEPT ![w] = Committed]
    /\ pc' = [pc EXCEPT ![w] = "done"]
    /\ UNCHANGED <<jobvars, key, fetched, data, spawned, running, outputs,
                   errors, idx, pending, alarm, persisted, fxResults>>

\* ------------------------------------------------------- the job timeout
\* rq raises JobTimeoutException once, in whatever code is running.

\* ... in load_all's own code: except JobTimeoutException returns
\* InternalServerError('Bulk loading timed out after {} seconds').
TimeoutInLoadAll(w) ==
    /\ alarm[w] = "armed"
    /\ pc[w] \in {"get", "delete", "pool", "add", "rollback", "remove"}
    /\ alarm' = [alarm EXCEPT ![w] = pc[w]]
    /\ outcome' = [outcome EXCEPT ![w] = TimeoutExceeded]
    /\ pc' = [pc EXCEPT ![w] = "done"]
    /\ UNCHANGED <<jobvars, key, fetched, data, spawned, running, outputs,
                   errors, idx, pending, calls, persisted, fxResults>>

\* ... while load_one(item) runs inside _load_one's try: the item's fx returns
\* what _load_one makes of the exception.
TimeoutInLoadOne(w, i) ==
    /\ alarm[w] = "armed"
    /\ pc[w] = "pool"
    /\ i \in running[w]
    /\ alarm' = [alarm EXCEPT ![w] = "load_one"]
    /\ running' = [running EXCEPT ![w] = @ \ {i}]
    /\ Accumulate(w, i, _load_one(Raised("JobTimeoutException")))
    /\ UNCHANGED <<jobvars, pc, key, fetched, data, spawned, idx, pending,
                   calls, outcome, persisted>>

\* ... while session.add / session.execute runs inside its try: except
\* Exception returns RequestError.
TimeoutInSessionCall(w) ==
    /\ alarm[w] = "armed"
    /\ pc[w] = "add"
    /\ alarm' = [alarm EXCEPT ![w] = "session.call"]
    /\ calls' = [calls EXCEPT ![w] =
                    Append(@, IF returns = "model" THEN "session.add"
                                                   ELSE "session.execute")]
    /\ outcome' = [outcome EXCEPT ![w] =
                      RequestError("add", [item |-> outputs[w][idx[w]].item,
                                           exc |-> "JobTimeoutException"])]
    /\ pc' = [pc EXCEPT ![w] = "done"]
    /\ UNCHANGED <<jobvars, key, fetched, data, spawned, running, outputs,
                   errors, idx, pending, persisted, fxResults>>

\* ... while session.commit() runs inside its try: except Exception is entered.
TimeoutInCommit(w) ==
    /\ alarm[w] = "armed"
    /\ pc[w] = "commit"
    /\ alarm' = [alarm EXCEPT ![w] = "session.commit"]
    /\ calls' = [calls EXCEPT ![w] = Append(@, "session.commit")]
    /\ pc' = [pc EXCEPT ![w] = "rollback"]
    /\ UNCHANGED <<jobvars, key, fetched, data, spawned, running, outputs,
                   errors, idx, pending, outcome, persisted, fxResults>>

\* load_all has ended; the worker takes up the queue again.
WorkerLoop(w) ==
    /\ pc[w] = "done"
    /\ pc' = [pc EXCEPT ![w] = "idle"]
    /\ key' = [key EXCEPT ![w] = NoKey]
    /\ fetched' = [fetched EXCEPT ![w] = "no"]
    /\ data' = [data EXCEPT ![w] = <<>>]
    /\ spawned' = [spawned EXCEPT ![w] = 0]
    /\ running' = [running EXCEPT ![w] = {}]
    /\ outputs' = [outputs EXCEPT ![w] = <<>>]
    /\ errors' = [errors EXCEPT ![w] = <<>>]
    /\ idx' = [idx EXCEPT ![w] = 0]
    /\ pending' = [pending EXCEPT ![session(w)] = <<>>]
    /\ calls' = [calls EXCEPT ![w] = <<>>]
    /\ alarm' = [alarm EXCEPT ![w] = "off"]
    /\ outcome' = [outcome EXCEPT ![w] = NoOutcome]
    /\ persisted' = [persisted EXCEPT ![w] = {}]
    /\ fxResults' = [fxResults EXCEPT ![w] = <<>>]
    /\ UNCHANGED jobvars

\* The batches of at most maxn items, in input order.
Batches(maxn) == {Items(n) : n \in 0..maxn}

\* The same batches with their items in every order.
Shuffled(maxn) ==
    UNION {{d \in [1..n -> 1..n] : \A a, b \in 1..n : d[a] = d[b] => a = b}
               : n \in 0..maxn}

\* One step of the system with the workers of W running, and at most maxjobs
\* batches, taken from batches (at most maxn items each), submitted.
StepOn(W, batches, maxn, maxjobs) ==
    \/ \E d \in batches, ok \in BOOLEAN : uuids < maxjobs /\ RunSet(d, ok)
    \/ RunEnqueue
    \/ \E k \in DOMAIN store : Expire(k)
    \/ \E w \in W, d \in q, ack \in BOOLEAN : Deliver(w, d, ack)
    \/ \E w \in W : Get(w)
    \/ \E w \in W : Delete(w)
    \/ \E w \in W : PoolInvalidSize(w)
    \/ \E w \in W : PoolSpawn(w)
    \/ \E w \in W, i \in 1..maxn, r \in LoadOneResults : PoolYield(w, i, r)
    \/ \E w \in W : SeqCall(w)
    \/ \E w \in W, i \in 1..maxn, r \in LoadOneResults : SeqReturn(w, i, r)
    \/ \E w \in W : ReturnErrors(w)
    \/ \E w \in W : BeginLoop(w)
    \/ \E w \in W, ok \in BOOLEAN : SessionAdd(w, ok)
    \/ \E w \in W, ok \in BOOLEAN : SessionExecute(w, ok)
    \/ \E w \in W, ok \in BOOLEAN : Commit(w, ok)
    \/ \E w \in W : Rollback(w)
    \/ \E w \in W : Remove(w)
    \/ \E w \in W : TimeoutInLoadAll(w)
    \/ \E w \in W, i \in 1..maxn : TimeoutInLoadOne(w, i)
    \/ \E w \in W : TimeoutInSessionCall(w)
    \/ \E w \in W : TimeoutInCommit(w)
    \/ \E w \in W : WorkerLoop(w)

\* One step with the batches submitted in input order, the clock not followed.
Step(W, maxn, maxjobs) ==
    StepOn(W, Batches(maxn), maxn, maxjobs) /\ UNCHANGED <<clockvars, retryvars>>

\* One worker process serves the queue: executions of load_all follow one another.
Next == Step({"w1"}, MaxItems, MaxJobs)

Spec == Init /\ [][Next]_vars

\* Two worker processes serve the queue, so two executions of load_all interleave;
\* a single job of at most MaxRaceItems items is submitted.
NextRace == Step(Workers, MaxRaceItems, 1)

SpecRace == Init /\ [][NextRace]_vars

\* One worker process, and a loader whose pool is smaller than its batches.
SpecSmallPool == InitSmallPool /\ [][Next]_vars

\* One worker and several submissions of batches of at most one item, so that
\* the payloads of different jobs are staged together.
NextJobs == Step({"w1"}, 1, MaxSubmissions)

SpecJobs == Init /\ [][NextJobs]_vars

\* The same system with time passing: redis does drop an entry that has a ttl.
\* Nothing else is assumed to happen: the queue may never deliver.
NextLive == Step({"w1"}, MaxRaceItems, MaxJobs)

SpecLive ==
    /\ Init
    /\ [][NextLive]_vars
    /\ \A j \in JobIds : WF_vars(Expire(kwargs_key(j)) /\ UNCHANGED <<clockvars, retryvars>>)

\* ------------------------------------------------------------- the clock
\* Time passes between any two steps of the program.
Tick ==
    /\ now < MaxTicks
    /\ now' = now + 1
    /\ UNCHANGED <<jobvars, wvars, armedAt, start, elapsed, retryvars>>

\* The worker was handed a job in this step.
Dispatched(w) == pc[w] = "idle" /\ pc'[w] = "get"

\* rq's alarm went off in worker w in this step.
AlarmFired(w) == alarm[w] = "armed" /\ alarm'[w] \notin {"armed", "off"}

\* load_all returned the timeout error in this step.
TimedOut(w) == outcome[w] # TimeoutExceeded /\ outcome'[w] = TimeoutExceeded

\* Elapsed with the operands of the subtraction exchanged.
Elapsed_exchanged(w) == start[w] - now

\* end = time.time(); ... .format(end-start)
Elapsed(w) == now - start[w]

\* What a step of the program does with the clock. rq arms the alarm for the
\* job's timeout and then calls load_all, which reads start = time.time() at
\* once or one tick later; the alarm does not go off before its time; the
\* except JobTimeoutException clause reports end - start.
Timed ==
    /\ now' = now
    /\ \A w \in Workers : AlarmFired(w) => now - armedAt[w] >= timeout
    /\ \E g \in 0..Min(now, 1) :
           armedAt' = [w \in Workers |->
                          IF Dispatched(w) THEN now - g ELSE armedAt[w]]
    /\ start' = [w \in Workers |-> IF Dispatched(w) THEN now ELSE start[w]]
    /\ elapsed' = [w \in Workers |->
                      IF Dispatched(w) THEN 0
                      ELSE IF TimedOut(w) THEN Elapsed(w)
                      ELSE elapsed[w]]

\* One worker, one job of at most one item, and the clock.
NextClock ==
    Tick \/ (StepOn({"w1"}, Batches(1), 1, 1) /\ Timed /\ UNCHANGED retryvars)

SpecClock == InitShortTimeout /\ [][NextClock]_vars

\* The engine run by BulkLoader itself or by one of the loader classes.
NextVariants == Step({"w1"}, MaxRaceItems, MaxJobs)

SpecVariants == (Init \/ InitVariants) /\ [][NextVariants]_vars

\* One job whose items come in any order, run by a loader whose pool is smaller
\* than the batch or by the stock loader.
InitAnyPool == \E mw \in {SmallPool, max_workers} : InitLoader(mw)

NextShuffle ==
    StepOn({"w1"}, Shuffled(MaxItems), MaxItems, 1)
        /\ UNCHANGED <<clockvars, retryvars>>

SpecShuffle == InitAnyPool /\ [][NextShuffle]_vars

\* ----------------------------------------------------- derived predicates
Done(w) == pc[w] = "done"

\* The execution got its payload and every item's fx has returned.
AllItemsRan(w) ==
    /\ fetched[w] = "payload"
    /\ Len(outputs[w]) + Len(errors[w]) = Len(data[w])

\* The exceptions recorded in errors.
ErrorClasses(w) == {errors[w][k].exc : k \in DOMAIN errors[w]}

\* Some item's load_one raised a generic error.
TransformRaised(w) == "Exception" \in ErrorClasses(w)

\* The outputs that are not None.
NonEmptyOutputs(w) ==
    {outputs[w][k] : k \in {x \in DOMAIN outputs[w] : outputs[w][x].val # "None"}}

NoCommit(w) == Count(calls[w], "session.commit") = 0

\* The first failure, as load_all reports it.
BatchFailure(w) == RequestError("item", errors[w][1])

\* ------------------------------------------------------------------ C1
\* C1 (as stated): an execution of load_all in which an item's transform raised
\* an error never calls session.commit() and ends with the batch-failure value.
C1_ItemFailureIsBatchFailure ==
    \A w \in Workers :
        (Done(w) /\ TransformRaised(w)) =>
            (NoCommit(w) /\ outcome[w] = BatchFailure(w))

\* C1 (amended): an execution of load_all in which an item's transform raised an
\* error never calls session.commit() and persists nothing; it ends with the
\* batch-failure value, unless the job timeout interrupted load_all's own code
\* while the items were being processed, and then it ends with TimeoutExceeded.
C1_ItemFailureNeverCommits ==
    \A w \in Workers :
        (Done(w) /\ TransformRaised(w)) =>
            /\ NoCommit(w)
            /\ persisted[w] = {}
            /\ \/ outcome[w] = BatchFailure(w)
               \/ outcome[w] = TimeoutExceeded /\ alarm[w] = "pool"

\* An execution ended with the batch failure although another item succeeded.
C1_Witness ==
    \E w \in Workers :
        /\ Done(w)
        /\ TransformRaised(w)
        /\ Len(outputs[w]) > 0
        /\ outcome[w] = BatchFailure(w)

\* ------------------------------------------------------------------ C2
\* C2: when every item returns an output or hits the benign concurrent deletion
\* (ObjectDeletedError), no session call fails and no timeout fires, load_all
\* calls session.commit() exactly once and returns True.
C2_AllBenignCommitsOnce ==
    \A w \in Workers :
        (/\ Done(w)
         /\ AllItemsRan(w)
         /\ ErrorClasses(w) \subseteq {"ObjectDeletedError"}
         /\ outcome[w].src \notin {"add", "commit"}
         /\ alarm[w] = "armed") =>
            (Count(calls[w], "session.commit") = 1 /\ outcome[w] = Committed)

\* ------------------------------------------------------------------ C3
\* C3: an execution of load_all commits at most once, and what it has made
\* durable is either nothing or every non-None output of the whole batch, all
\* items having run without a failure; never a part of them.
C3_AllOrNothing ==
    \A w \in Workers :
        /\ Count(calls[w], "session.commit") <= 1
        /\ \/ persisted[w] = {}
           \/ /\ persisted[w] = NonEmptyOutputs(w)
              /\ AllItemsRan(w)
              /\ errors[w] = <<>>
              /\ Count(calls[w], "session.commit") = 1

\* An execution has ended with a batch of two outputs made durable.
C3_Witness ==
    \E w \in Workers :
        /\ Done(w)
        /\ Len(data[w]) = 2
        /\ Cardinality(persisted[w]) = 2

\* ------------------------------------------------------------------ C4
\* C4: an item whose load_one raises ObjectDeletedError adds nothing to errors,
\* and a batch whose only exceptions are of that kind is committed (when no
\* session call fails and no timeout fires).
C4_DeletedIsBenign ==
    \A w \in Workers :
        /\ "ObjectDeletedError" \notin ErrorClasses(w)
        /\ (/\ Done(w)
            /\ AllItemsRan(w)
            /\ ErrorClasses(w) = {"ObjectDeletedError"}
            /\ outcome[w].src \notin {"add", "commit"}
            /\ alarm[w] = "armed") => outcome[w] = Committed

\* ------------------------------------------------------------------ C5
\* C5: when an execution of load_all whose redis.get returned the payload ends,
\* the staging key no longer exists.
C5_PayloadReadOnce ==
    \A w \in Workers :
        (Done(w) /\ fetched[w] = "payload") => key[w] \notin DOMAIN store

\* ------------------------------------------------------------------ C6
\* C6: of two executions of load_all given the same kwargs_key at most one holds
\* the payload, and no job's outputs are committed twice.
C6_AtMostOnceConsumption ==
    /\ \A w1, w2 \in Workers :
           (w1 # w2 /\ fetched[w1] = "payload" /\ fetched[w2] = "payload") =>
               key[w1] # key[w2]
    /\ \A j \in JobIds : dbCommits[j] <= 1

\* ------------------------------------------------------------------ C7
\* C7: every descriptor on the queue, and every kwargs_key a worker was handed,
\* names a payload that rds.set had written; a run() whose rds.set raised has
\* enqueued no descriptor.
C7_NoOrphanDescriptors ==
    /\ \A d \in q :
           /\ d.kwargs_key \in everStaged
           /\ d.job_id \notin {j \in DOMAIN run_result : run_result[j] = "raised"}
    /\ \A w \in Workers : key[w] # NoKey => key[w] \in everStaged

\* A run() has returned: its descriptor is on the queue, its payload staged.
C7_Witness ==
    \E d \in q :
        /\ d.job_id \in DOMAIN run_result
        /\ run_result[d.job_id] = "returned"
        /\ d.kwargs_key \in DOMAIN store

\* ------------------------------------------------------------------ C8
\* C8: when the job timeout fires before session.commit() has completed -- in
\* load_all's own code, inside load_one, inside session.add/execute or inside
\* session.commit() -- load_all ends with TimeoutExceeded and persists nothing.
C8_TimeoutIsTimeoutExceeded ==
    \A w \in Workers :
        (Done(w) /\ alarm[w] \in {"get", "delete", "pool", "load_one", "add",
                                  "session.call", "session.commit"}) =>
            (outcome[w] = TimeoutExceeded /\ persisted[w] = {})

\* ------------------------------------------------------------------ C9
\* C9: load_all always ends by returning a value, never by raising.
C9_NeverRaises ==
    \A w \in Workers : Done(w) => outcome[w].how = "returned"

\* ------------------------------------------------------------------ C10
\* C10: when redis.get finds no entry, load_all ends at once by raising
\* InternalServerError: no load_one was called, nothing was added, executed,
\* committed or rolled back on the session, and no redis.delete was issued.
C10_MissingPayloadFailsAtOnce ==
    \A w \in Workers :
        fetched[w] = "absent" =>
            /\ Done(w)
            /\ outcome[w] = PayloadMissing
            /\ calls[w] = <<"gen_session", "redis.get">>
            /\ spawned[w] = 0
            /\ outputs[w] = <<>> /\ errors[w] = <<>>
            /\ pending[w] = <<>> /\ persisted[w] = {}

\* An execution found its payload gone after an earlier delivery consumed it.
C10_Witness ==
    \E w \in Workers :
        /\ Done(w)
        /\ fetched[w] = "absent"
        /\ key[w] \in everStaged
        /\ deliveries > 1

\* ------------------------------------------------------------------ C11
\* C11: in concurrent mode the number of items whose load_one is executing never
\* exceeds min(len(data), max_workers).
C11_ConcurrencyBound ==
    \A w \in Workers :
        concurrent =>
            Cardinality(running[w]) <= Min(Len(data[w]), maxWorkers)

\* The pool is full with one more item still waiting for a slot.
C11_Witness ==
    \E w \in Workers :
        /\ concurrent
        /\ pc[w] = "pool"
        /\ Len(data[w]) > maxWorkers
        /\ Cardinality(running[w]) = maxWorkers
        /\ spawned[w] < Len(data[w])

\* ------------------------------------------------------------------ C12
\* The (err, res) pairs load_all has collected so far, successes then failures.
Collected(w) == outputs[w] \o errors[w]

\* C12: every item handed to fx is either still executing or has exactly one
\* entry in outputs + errors, never two and never none, so that when the loop
\* is over outputs + errors has len(data) entries, one per item; a failure of
\* one item takes no other item out of the loop. Both modes.
C12_PerItemIsolation ==
    \A w \in Workers :
        LET seen == Collected(w) IN
        /\ \A a, b \in 1..Len(seen) : seen[a].item = seen[b].item => a = b
        /\ \A a \in 1..Len(seen) : seen[a].item \notin running[w]
        /\ Len(seen) + Cardinality(running[w]) = spawned[w]
        /\ Drained(w) =>
               /\ Len(seen) = Len(data[w])
               /\ \A n \in 1..Len(data[w]) :
                      \E a \in 1..Len(seen) : seen[a].item = data[w][n]

\* The first item failed and the second one was still run and succeeded.
C12_Witness ==
    \E w \in Workers :
        /\ Drained(w)
        /\ Len(data[w]) > 1
        /\ \E a \in 1..Len(errors[w]) : errors[w][a].item = data[w][1]
        /\ \E a \in 1..Len(outputs[w]) : outputs[w][a].item = data[w][2]

\* ------------------------------------------------------------------ C13
\* C13: the batch-failure value carries the first failure load_all observed,
\* errors[0]: the failure that completed before every other failure, which in
\* sequential mode is that of the failing item with the smallest index.
C13_FirstFailureReported ==
    \A w \in Workers :
        (Done(w) /\ outcome[w].src = "item") =>
            /\ Len(errors[w]) > 0
            /\ outcome[w] = BatchFailure(w)
            /\ \A a \in 2..Len(errors[w]) : errors[w][a] # outcome[w].msg
            /\ ~concurrent =>
                   \A a \in 1..Len(errors[w]) :
                       outcome[w].msg.item <= errors[w][a].item

\* Concurrent mode, two failures, the second item failed first and is the one
\* reported.
C13_Witness ==
    \E w \in Workers :
        /\ Done(w)
        /\ concurrent
        /\ Len(errors[w]) = 2
        /\ errors[w][1].item = 2
        /\ errors[w][2].item = 1
        /\ outcome[w].src = "item"
        /\ outcome[w].msg.item = 2

\* ------------------------------------------------------------------ C14
\* The items whose fx returned err = True / err = False.
FailedItems(w) == {i \in DOMAIN fxResults[w] : fxResults[w][i][1]}

SucceededItems(w) == DOMAIN fxResults[w] \ FailedItems(w)

\* C14: in concurrent mode, whatever the order of the items in the batch and
\* the order in which their greenlets complete, once the pool has drained the
\* set of collected failures, the set of collected successes and the branch
\* load_all takes (batch failure or the add/execute loop towards the commit)
\* are determined by what fx returned for each item alone.
C14_OrderIndependence ==
    \A w \in Workers :
        (concurrent /\ Drained(w)) =>
            /\ DOMAIN fxResults[w] = {data[w][n] : n \in 1..Len(data[w])}
            /\ {errors[w][a] : a \in 1..Len(errors[w])} =
                   {[item |-> i, exc |-> fxResults[w][i][2]] : i \in FailedItems(w)}
            /\ {outputs[w][a] : a \in 1..Len(outputs[w])} =
                   {[item |-> i, val |-> fxResults[w][i][2]] : i \in SucceededItems(w)}
            /\ (ENABLED ReturnErrors(w)) <=> (FailedItems(w) # {})
            /\ (ENABLED BeginLoop(w)) <=> (FailedItems(w) = {})

\* A shuffled batch whose items both failed, the second one completing before
\* the first.
C14_Witness ==
    \E w \in Workers :
        /\ concurrent
        /\ Drained(w)
        /\ data[w] = <<2, 1>>
        /\ Len(errors[w]) = 2
        /\ errors[w][1].item = data[w][2]
        /\ FailedItems(w) = {1, 2}

\* ------------------------------------------------------------------ C15
\* session.commit() has raised and load_all is in the except clause of lines
\* 130-135.
CommitFailed(w) == pc[w] = "rollback"

SessionMutations ==
    {"session.add", "session.execute", "session.commit", "session.rollback"}

\* C16: an execution that ends with the batch-failure value has made no add,
\* execute, commit or rollback call on its session, holds nothing pending and
\* has persisted nothing, whatever the other items returned.
C16_BatchFailureLeavesSessionUntouched ==
    \A w \in Workers :
        (Done(w) /\ outcome[w].src = "item") =>
            /\ \A c \in 1..Len(calls[w]) : calls[w][c] \notin SessionMutations
            /\ pending[w] = <<>>
            /\ persisted[w] = {}

\* One item failed, another returned an object, and the batch failure was
\* returned.
C16_Witness ==
    \E w \in Workers :
        /\ Done(w)
        /\ Len(errors[w]) = 1
        /\ outcome[w] = BatchFailure(w)
        /\ NonEmptyOutputs(w) # {}
        /\ calls[w][1] = "gen_session"

\* ------------------------------------------------------------------ C17
\* The job ids run() has handed out so far, whether or not rds.set succeeded.
IssuedJobIds == DOMAIN run_result \cup {JobOf(k) : k \in everStaged}

\* C17: the job_id of a submission differs from every job_id issued before and
\* its staging key from every key staged before; rds.set never changes an entry
\* that is already staged; an entry leaves the store only by its own expiry
\* or by the redis.delete of an execution that was handed that very key.
C17_JobsDoNotShareStagingKeys ==
    [][/\ uuids' # uuids =>
              /\ run_job' \notin IssuedJobIds
              /\ kwargs_key(run_job') \notin everStaged
       /\ \A k \in DOMAIN store \cap DOMAIN store' : store'[k] = store[k]
       /\ \A k \in DOMAIN store \ DOMAIN store' :
              \/ calls' = calls
              \/ \E w \in Workers :
                     /\ key[w] = k
                     /\ calls'[w] = Append(calls[w], "redis.delete")
                     /\ DOMAIN store' = DOMAIN store \ {k}]_vars

\* Two jobs were staged; an execution deleted the payload of one of them and
\* the payload of the other is still staged.
C17_Witness ==
    \E w \in Workers :
        /\ Cardinality(everStaged) = 2
        /\ pc[w] = "pool"
        /\ key[w] \in everStaged
        /\ key[w] \notin DOMAIN store
        /\ \E k \in DOMAIN store : k # key[w]

\* ------------------------------------------------------------------ C18
\* A step of run(): the rds.set step or the enqueue-and-return step.
RunStep == uuids' # uuids \/ run_pc' # run_pc \/ run_result' # run_result

\* C18: a step of run() changes nothing of any worker (no load_one, no session,
\* no delivery); the rds.set step writes exactly one staging entry and touches
\* no queue; the enqueue step puts exactly one descriptor on the queue, writes
\* nothing to the store and returns the job_id; and once rds.set has returned,
\* the enqueue step can be taken whatever the workers are doing.
C18_SubmissionDoesNotBlock ==
    [][/\ RunStep => (wvars' = wvars /\ deliveries' = deliveries)
       /\ (run_pc = "idle" /\ run_pc' = "enqueue") =>
              /\ q' = q
              /\ kwargs_key(run_job') \notin DOMAIN store
              /\ DOMAIN store' = DOMAIN store \cup {kwargs_key(run_job')}
       /\ (run_pc = "enqueue" /\ run_pc' = "idle") =>
              /\ store' = store
              /\ Cardinality(q') = Cardinality(q) + 1
              /\ \E d \in q' \ q :
                     d.job_id = run_job /\ d.kwargs_key = kwargs_key(run_job)
              /\ run_job \notin DOMAIN run_result
              /\ run_result'[run_job] = "returned"
       /\ run_pc = "enqueue" => ENABLED RunEnqueue]_vars

\* run() has returned the job_id: the descriptor waits on the queue, the
\* payload is staged, and no worker has been handed anything yet.
C18_Witness ==
    \E d \in q :
        /\ run_pc = "idle"
        /\ run_result[d.job_id] = "returned"
        /\ d.kwargs_key \in DOMAIN store
        /\ \A w \in Workers : key[w] # d.kwargs_key
        /\ \A w \in Workers : calls[w] = <<>>
        /\ deliveries = 0

\* ------------------------------------------------------------------ C19
\* C19: every staged payload is eventually gone from the staging store, by the
\* redis.delete of an execution or by the expiry rds.set asked for.
C19_StagedPayloadIsEventuallyRemoved ==
    \A j \in JobIds :
        (kwargs_key(j) \in DOMAIN store) ~> (kwargs_key(j) \notin DOMAIN store)

\* A payload that no worker was ever handed is gone from the store.
C19_Witness ==
    \E k \in everStaged :
        /\ k \notin DOMAIN store
        /\ deliveries = 0
        /\ \E d \in q : d.kwargs_key = k

\* ------------------------------------------------------------------ C20
\* C20 (as stated): an execution finds its staging entry absent only after
\* another execution of the same descriptor has consumed it, so never on the
\* first delivery of a job whose rds.set succeeded.
C20_AbsentOnlyAfterConsumption ==
    \A w \in Workers :
        (fetched[w] = "absent" /\ key[w] \in everStaged) => deliveries > 1

\* C20 (amended): an execution that finds its staging entry absent was handed
\* the key of an entry that rds.set had written and that has left the store;
\* and an entry leaves the store only when an execution that was handed its
\* key and fetched it calls redis.delete, or when redis expires it at the end
\* of its ttl, which may come before the first delivery.
C20_AbsentAfterConsumptionOrExpiry ==
    [][/\ \A w \in Workers :
              (pc[w] = "get" /\ fetched'[w] = "absent") =>
                  /\ key[w] \in everStaged
                  /\ key[w] \notin DOMAIN store
       /\ \A k \in DOMAIN store \ DOMAIN store' :
              \/ /\ store[k].ex = kwargs_ttl
                 /\ wvars' = wvars
              \/ \E w \in Workers :
                     /\ key[w] = k
                     /\ fetched[w] = "payload"
                     /\ pc[w] = "delete"
                     /\ calls'[w] = Append(calls[w], "redis.delete")]_vars

\* The first delivery of a job finds the entry absent: it has expired.
C20_Witness ==
    \E w \in Workers :
        /\ fetched[w] = "absent"
        /\ key[w] \in everStaged
        /\ deliveries = 1
        /\ calls[w] = <<"gen_session", "redis.get">>

\* ------------------------------------------------------------------ C21
\* The loader classes whose load_one is one of the ingest_metric transforms.
MetricVariants ==
    {"ContentTimeseriesBulkLoader", "ContentSummaryBulkLoader",
     "OrgTimeseriesBulkLoader", "OrgSummaryBulkLoader"}

\* C21: there are six loader classes; each overrides load_one with a transform
\* of its own, returns with 'query' (the four metric loaders) or 'model' (events
\* and content items) and timeout with a budget between 120 and 480 seconds,
\* and nothing else of the engine; the descriptor that the run() of such a
\* loader enqueues names load_all and carries that loader's timeout and
\* result_ttl.
C21_SixVariantsOneEngine ==
    /\ Cardinality(DOMAIN Variants) = 6
    /\ MetricVariants \subseteq DOMAIN Variants
    /\ \A a \in DOMAIN Variants :
           /\ Variants[a].returns =
                  (IF a \in MetricVariants THEN "query" ELSE "model")
           /\ Variants[a].timeout \in 120..480
           /\ \A b \in DOMAIN Variants :
                  Variants[a].load_one = Variants[b].load_one => a = b
    /\ loader \in DOMAIN Variants =>
           /\ returns = Variants[loader].returns
           /\ concurrent = Variants[loader].concurrent
           /\ maxWorkers = max_workers
           /\ \A d \in q :
                  /\ d.f = "load_all"
                  /\ d.timeout = Variants[loader].timeout
                  /\ d.result_ttl = result_ttl

\* The organisation-summary loader has enqueued a job with its 120 seconds.
C21_Witness ==
    /\ loader = "OrgSummaryBulkLoader"
    /\ returns = "query"
    /\ \E d \in q : d.timeout = 120 /\ d.result_ttl = 60

\* ------------------------------------------------------------------ C22
\* C22 (as stated): the elapsed time an execution reports with the timeout
\* error is at least the job's timeout.
C22_ElapsedAtLeastBudget ==
    \A w \in Workers :
        (Done(w) /\ outcome[w] = TimeoutExceeded) => elapsed[w] >= timeout

\* C22 (amended): the elapsed time reported with the timeout error, plus the
\* time that passed between rq arming the timeout and load_all reading its
\* start time, is at least the job's timeout.
C22_ElapsedPlusDispatchDelayAtLeastBudget ==
    \A w \in Workers :
        (Done(w) /\ outcome[w] = TimeoutExceeded) =>
            /\ start[w] >= armedAt[w]
            /\ elapsed[w] + (start[w] - armedAt[w]) >= timeout
            /\ elapsed[w] >= 0

\* A tick passed between the arming and the start: the timeout error reports
\* one tick less than the budget.
C22_Witness ==
    \E w \in Workers :
        /\ Done(w)
        /\ outcome[w] = TimeoutExceeded
        /\ start[w] = armedAt[w] + 1
        /\ elapsed[w] = timeout - 1

\* ------------------------------------------------------------------ C23
\* Some load_one of this execution has been called.
TransformInvoked(w) == spawned[w] > 0

\* C23: whenever a load_one of an execution has been called, that execution
\* has already called redis.delete on its kwargs_key and the key is not in the
\* staging store.
C23_DeleteBeforeTransforms ==
    \A w \in Workers :
        TransformInvoked(w) =>
            /\ Count(calls[w], "redis.delete") = 1
            /\ key[w] \notin DOMAIN store

\* The first load_one of a batch is executing and the payload is gone.
C23_Witness ==
    \E w \in Workers :
        /\ pc[w] = "pool"
        /\ spawned[w] = 1
        /\ running[w] # {}
        /\ fetched[w] = "payload"
        /\ key[w] \in everStaged
        /\ key[w] \notin DOMAIN store

\* ------------------------------------------------------------------ C24
\* Worker w made a call that changes what its session holds in this step.
SessionTouched(w) ==
    /\ Len(calls'[w]) > Len(calls[w])
    /\ calls'[w][Len(calls'[w])] \in SessionMutations

\* An fx of worker w returned in this step.
FxReturned(w) == fxResults'[w] # fxResults[w] /\ fxResults'[w] # <<>>

\* C24: a step in which an item's fx returns makes no call on the session and
\* leaves what the session holds alone; every add, execute, commit and rollback
\* is made by load_all itself after the item loop is over, with every item's
\* outcome collected and no load_one executing.
C24_SessionOwnedByCoordinator ==
    [][\A w \in Workers :
          /\ FxReturned(w) =>
                 /\ calls'[w] = calls[w]
                 /\ pending'[w] = pending[w]
                 /\ persisted'[w] = persisted[w]
          /\ SessionTouched(w) =>
                 /\ pc[w] \in {"add", "commit", "rollback"}
                 /\ running[w] = {}
                 /\ spawned[w] = Len(data[w])
                 /\ Len(Collected(w)) = Len(data[w])]_vars

\* The first session.add of a batch of two items has been made: both items
\* have returned and none is executing.
C24_Witness ==
    \E w \in Workers :
        /\ concurrent
        /\ Len(data[w]) = 2
        /\ Len(outputs[w]) = 2
        /\ running[w] = {}
        /\ Len(pending[w]) = 1
        /\ Count(calls[w], "session.add") + Count(calls[w], "session.execute") = 1


\* ---------------------------------------------------------------------------
\* Two jobs executing at the same time on two workers

\* The two loaders run here: one that returns models and runs its items in the
\* pool, one that returns queries and runs its items one after the other.
InitSessions ==
    /\ loader = "BulkLoader"
    /\ concurrent \in BOOLEAN
    /\ returns = IF concurrent THEN "model" ELSE "query"
    /\ maxWorkers = max_workers
    /\ timeout = base_timeout
    /\ InitState

\* Two workers, two submitted jobs of at most one item each.
NextSessions == Step(Workers, 1, 2)

SpecSessions == InitSessions /\ [][NextSessions]_vars

\* The execution of w took no step.
Untouched(w) == pc'[w] = pc[w] /\ calls'[w] = calls[w]

\* The outputs the execution of w has handed to its session and not yet
\* committed or rolled back.
SessionMutationsOf(w) ==
    {pending[session(w)][k] : k \in DOMAIN pending[session(w)]}

\* C25: every execution of load_all opens a session handle of its own; with two
\* jobs executing at the same time, what is added to and committed through one
\* job's session is that job's outputs only, and no step of one job (its
\* failure, rollback, timeout or commit) changes what the other job's session
\* holds or what the other job has committed.
C25_SessionsAreIsolated ==
    [][\A w \in Workers :
          /\ \A v \in Workers : v # w => session(v) # session(w)
          /\ Untouched(w) =>
                 /\ pending'[session(w)] = pending[session(w)]
                 /\ persisted'[w] = persisted[w]
          /\ pc'[w] # "idle" =>
                 /\ SessionMutationsOf(w)' \subseteq NonEmptyOutputs(w)'
                 /\ persisted'[w] \subseteq NonEmptyOutputs(w)']_vars

\* Two different jobs are executing at once: one has handed an output to its
\* session, the other has ended on a failure with nothing in its session.
C25_Witness ==
    /\ key["w1"] # NoKey /\ key["w2"] # NoKey /\ key["w1"] # key["w2"]
    /\ pc["w1"] = "commit" /\ Len(pending[session("w1")]) = 1
    /\ Done("w2") /\ outcome["w2"].val = "RequestError"
    /\ pending[session("w2")] = <<>>


\* ------------------------------------------------------------------ C26
\* The place of item i in the batch.
PositionOf(w, i) == CHOOSE n \in 1..Len(data[w]) : data[w][n] = i

\* The entries of seq are in the order of their items in the batch.
InInputOrder(w, seq) ==
    \A a, b \in 1..Len(seq) :
        a < b => PositionOf(w, seq[a].item) < PositionOf(w, seq[b].item)

\* C26: in sequential mode the items are transformed strictly one at a time in
\* input order: at most one item is in flight, it is the latest one started,
\* an item starts only when every item before it has returned, and the
\* outcomes are accumulated in input order.
C26_SequentialInInputOrder ==
    \A w \in Workers :
        ~concurrent =>
            /\ Cardinality(running[w]) <= 1
            /\ running[w] \subseteq {data[w][n] : n \in {spawned[w]} \ {0}}
            /\ spawned[w] = Len(Collected(w)) + Cardinality(running[w])
            /\ DOMAIN fxResults[w] =
                   {data[w][n] : n \in 1..(spawned[w] - Cardinality(running[w]))}
            /\ InInputOrder(w, outputs[w])
            /\ InInputOrder(w, errors[w])

\* A sequential run over the batch <<2, 1>>: item 2 has returned an output and
\* item 1, the second of the batch, is in flight.
C26_Witness ==
    \E w \in Workers :
        /\ ~concurrent
        /\ data[w] = <<2, 1>>
        /\ running[w] = {1}
        /\ Len(outputs[w]) = 1 /\ outputs[w][1].item = 2
        /\ spawned[w] = 2


\* ------------------------------------------------------------------ C27
\* The add / execute loop of w has run to its end without a failure: load_all
\* is at session.commit() or past it.
LoopCompleted(w) ==
    pc[w] = "commit" \/ Count(calls[w], "session.commit") > 0

\* The outputs that are not None, in the order of outputs.
RECURSIVE NonEmptyInOrder(_)
NonEmptyInOrder(outs) ==
    IF outs = <<>> THEN <<>>
    ELSE IF Head(outs).val # "None"
         THEN <<Head(outs)>> \o NonEmptyInOrder(Tail(outs))
         ELSE NonEmptyInOrder(Tail(outs))

\* C27: on the no-failure path the session gets one call for each output that
\* is not None and none for a None output: session.add in 'model' mode,
\* session.execute in 'query' mode, never both; the number of add / execute
\* calls before the commit is the number of non-None outputs, and what the
\* session holds at the commit is those outputs, each once.
C27_OneSessionCallPerNonEmptyOutput ==
    \A w \in Workers :
        /\ returns = "model" => Count(calls[w], "session.execute") = 0
        /\ returns = "query" => Count(calls[w], "session.add") = 0
        /\ LoopCompleted(w) =>
               /\ Count(calls[w], "session.add")
                      + Count(calls[w], "session.execute")
                    = Len(NonEmptyInOrder(outputs[w]))
               /\ Len(NonEmptyInOrder(outputs[w])) = Cardinality(NonEmptyOutputs(w))
        /\ pc[w] = "commit" =>
               pending[session(w)] = NonEmptyInOrder(outputs[w])

\* A batch of two items has reached the commit: one output is None, the other
\* one was handed to the session by the only session call made.
C27_Witness ==
    \E w \in Workers :
        /\ pc[w] = "commit"
        /\ Len(outputs[w]) = 2
        /\ Cardinality(NonEmptyOutputs(w)) = 1
        /\ Count(calls[w], "session.add") + Count(calls[w], "session.execute") = 1
        /\ Len(pending[session(w)]) = 1


\* ------------------------------------------------------------------ C28
\* The execution on w opened a session: gen_session() was called.
SessionOpened(w) == Count(calls[w], "gen_session") > 0

\* session.remove() was called on the session of the execution on w.
SessionReleased(w) == Count(calls[w], "session.remove") > 0

\* C28: every execution of load_all that opened a session has released it
\* (session.remove()) when it terminates, on every terminal path: Committed,
\* batch failure, add/execute failure, commit failure, missing payload and
\* timeout.
C28_SessionReleasedOnEveryPath ==
    \A w \in Workers :
        (Done(w) /\ SessionOpened(w)) => SessionReleased(w)


\* ------------------------------------------------------------------ C29
\* load_all has ended because session.add / session.execute raised after at
\* least one earlier output of the batch had been added / executed.
SessionCallFailedAfterEarlier(w) ==
    /\ Done(w)
    /\ outcome[w].val = "RequestError" /\ outcome[w].src = "add"
    /\ Count(calls[w], "session.add") + Count(calls[w], "session.execute") >= 2

\* C29: when session.add / session.execute fails after earlier outputs of the
\* batch were added / executed, load_all returns an error without calling
\* commit, and the mutations the session had accumulated are rolled back: the
\* session holds none of them when load_all returns.
C29_FailedSessionCallDiscardsMutations ==
    \A w \in Workers :
        SessionCallFailedAfterEarlier(w) =>
            /\ NoCommit(w)
            /\ persisted[w] = {}
            /\ pending[session(w)] = <<>>


\* ------------------------------------------------------------------ C30
\* The execution on w was handed an empty batch and has ended.
EmptyBatchDone(w) ==
    /\ Done(w)
    /\ fetched[w] = "payload"
    /\ Len(data[w]) = 0

\* C30: an execution of load_all on an empty batch ends Committed: no transform
\* is invoked, no add / execute is performed, the staging entry is deleted and
\* commit is invoked exactly once.
C30_EmptyBatchCommits ==
    \A w \in Workers :
        EmptyBatchDone(w) =>
            /\ outcome[w] = Committed
            /\ spawned[w] = 0
            /\ Count(calls[w], "session.add") = 0
            /\ Count(calls[w], "session.execute") = 0
            /\ Count(calls[w], "redis.delete") = 1
            /\ Count(calls[w], "session.commit") = 1


\* ---------------------------------------------------------------------------
\* lib/network.py: retry(attempts, wait, backoff, raise_uncaught_errors)

\* What one invocation of the wrapped function f can do: raise, return a value
\* that is not a requests.Response, return a Response whose status is not an
\* error, return a Response whose raise_for_status() raises HTTPError.
FResults == {"raise", "value", "response_ok", "response_error"}

\* isinstance(r, requests.Response)
IsResponse(x) == x.kind \in {"response_ok", "response_error"}

\* What f returned on attempt n.
Returned_by_f(res, n) == [kind |-> res, from |-> n]

\* The exception f raised on attempt n, re-raised by wrapped_func.
Raised_by_f(n) == [kind |-> "exception", from |-> n]

\* time.sleep(wait_time), made after attempt number tries.
Sleep == Append(sleeps, [after |-> tries, secs |-> wait_time])

\* wrapped_func(*args, **kw) has been called on a function wrapped by
\* retry(attempts, wait, backoff, raise_uncaught_errors) and is at 'while 1':
\* r = null_value; tries = 0; err = True; bckof = backoff * 1;
\* wait_time = wait * 1.
InitRetry ==
    /\ loader = "BulkLoader"
    /\ returns = "model"
    /\ concurrent = TRUE
    /\ maxWorkers = max_workers
    /\ timeout = base_timeout
    /\ InitEngine
    /\ attempts \in 0..MaxAttempts
    /\ wait \in 1..MaxWait
    /\ backoff \in 1..MaxBackoff
    /\ raise_uncaught_errors \in BOOLEAN
    /\ tries = 0
    /\ rv = null_value
    /\ err = TRUE
    /\ wait_time = wait
    /\ retry_pc = "loop"
    /\ attemptLog = <<>>
    /\ sleeps = <<>>
    /\ retry_result = NoRetryResult

\* if tries == attempts: return r
RetryExhausted ==
    /\ retry_pc = "loop"
    /\ tries = attempts
    /\ retry_result' = [how |-> "returned", val |-> rv]
    /\ retry_pc' = "done"
    /\ UNCHANGED <<attempts, wait, backoff, raise_uncaught_errors, tries, rv,
                   err, wait_time, attemptLog, sleeps>>

\* tries += 1; wait_time *= bckof
RetryNextTry ==
    /\ retry_pc = "loop"
    /\ tries # attempts
    /\ tries' = tries + 1
    /\ wait_time' = wait_time * backoff
    /\ retry_pc' = "try"
    /\ UNCHANGED <<attempts, wait, backoff, raise_uncaught_errors, rv, err,
                   attemptLog, sleeps, retry_result>>

\* try: r = f(*args, **kw); err = False
\* except Exception as e: raise e if raise_uncaught_errors, else
\* time.sleep(wait_time).
RetryTry(res) ==
    /\ retry_pc = "try"
    /\ attemptLog' = Append(attemptLog, res)
    /\ IF res = "raise"
       THEN /\ UNCHANGED <<rv, err>>
            /\ IF raise_uncaught_errors
               THEN /\ retry_result' = [how |-> "raised", val |-> Raised_by_f(tries)]
                    /\ retry_pc' = "done"
                    /\ UNCHANGED sleeps
               ELSE /\ sleeps' = Sleep
                    /\ retry_pc' = "status"
                    /\ UNCHANGED retry_result
       ELSE /\ rv' = Returned_by_f(res, tries)
            /\ err' = FALSE
            /\ retry_pc' = "status"
            /\ UNCHANGED <<sleeps, retry_result>>
    /\ UNCHANGED <<attempts, wait, backoff, raise_uncaught_errors, tries,
                   wait_time>>

\* if isinstance(r, requests.Response): try: r.raise_for_status()
\*     except HTTPError: time.sleep(wait_time)
\* elif not err: break  (then: return r)
RetryStatus ==
    /\ retry_pc = "status"
    /\ IF IsResponse(rv)
       THEN /\ sleeps' = IF rv.kind = "response_error" THEN Sleep ELSE sleeps
            /\ retry_pc' = "loop"
            /\ UNCHANGED retry_result
       ELSE IF ~err
       THEN /\ retry_result' = [how |-> "returned", val |-> rv]
            /\ retry_pc' = "done"
            /\ UNCHANGED sleeps
       ELSE /\ retry_pc' = "loop"
            /\ UNCHANGED <<sleeps, retry_result>>
    /\ UNCHANGED <<attempts, wait, backoff, raise_uncaught_errors, tries, rv,
                   err, wait_time, attemptLog>>

NextRetry ==
    /\ \/ RetryExhausted
       \/ RetryNextTry
       \/ \E res \in FResults : RetryTry(res)
       \/ RetryStatus
    /\ UNCHANGED <<jobvars, wvars, clockvars>>

SpecRetry == InitRetry /\ [][NextRetry]_vars

\* wrapped_func has ended.
RetryDone == retry_pc = "done"

\* An attempt that failed: f raised, or returned a Response with an error status.
Failed(res) == res \in {"raise", "response_error"}

\* wait * backoff^k
RECURSIVE WaitTimes(_)
WaitTimes(k) == IF k = 0 THEN wait ELSE WaitTimes(k - 1) * backoff

\* The seconds slept after attempt k.
RECURSIVE SumSecs(_)
SumSecs(seq) == IF seq = <<>> THEN 0 ELSE Head(seq).secs + SumSecs(Tail(seq))

SleptAfter(k) == SumSecs(SelectSeq(sleeps, LAMBDA s : s.after = k))

\* ------------------------------------------------------------------ C31
\* C31: a function wrapped by retry(attempts = n) is invoked at most n times
\* (not at all when n = 0); when every attempt has failed and
\* raise_uncaught_errors is false, wrapped_func returns null_value; and the
\* wait between a failed attempt k and attempt k + 1 is wait * backoff^k.
C31_RetryIsBoundedAndReturnsNull ==
    /\ Len(attemptLog) <= attempts
    /\ (/\ RetryDone
        /\ ~raise_uncaught_errors
        /\ \A k \in 1..Len(attemptLog) : Failed(attemptLog[k])) =>
           retry_result = [how |-> "returned", val |-> null_value]
    /\ \A k \in 1..(Len(attemptLog) - 1) :
           Failed(attemptLog[k]) => SleptAfter(k) = WaitTimes(k)


\* ------------------------------------------------------------------ C32
\* An attempt that succeeded: f returned without raising and, when it returned
\* a Response, the status is not an error.
Succeeded(res) == res \in {"value", "response_ok"}

\* C32: wrapped_func stops at the first attempt that succeeds: f is not invoked
\* again after it, and the value that attempt returned is what wrapped_func
\* returns.
C32_StopsAtFirstSuccess ==
    \A k \in 1..Len(attemptLog) :
        Succeeded(attemptLog[k]) =>
            /\ Len(attemptLog) = k
            /\ RetryDone =>
                   retry_result = [how |-> "returned",
                                   val |-> Returned_by_f(attemptLog[k], k)]

====
